---- MODULE Spec2Model ----
(***************************************************************************)
(* Model of deconvolution.py: the Wiener-deconvolution demo.               *)
(*                                                                         *)
(* Spec        the program: main() from image load to the event loop, with *)
(*             update() (the restoration) as one action.                   *)
(* SpecFilter  lines 135-138, the per-bin filter arithmetic, on small      *)
(*             complex spectra with exact rational arithmetic.             *)
(* SpecEdge    blur_edge (lines 36-43) probed pixel by pixel.              *)
(* SpecShift   lines 131,153-154, the recentring roll.                     *)
(*                                                                         *)
(* Modelling conventions                                                   *)
(*  - angles are kept in whole degrees (the trackbar position); the angle  *)
(*    in radians is pos*pi/180, so "angle < pi" is "pos < 180".            *)
(*  - noise = 10**(-0.1*snr) is kept by its trackbar position snr; it is   *)
(*    turned into an exact rational <<1, 10^(snr/10)>> only where snr is a *)
(*    multiple of 10.                                                      *)
(*  - trackbar callbacks run only from the event dispatch inside           *)
(*    cv.waitKey (line 168), never from cv.createTrackbar.                 *)
(*  - command-line values for the trackbars are taken inside the           *)
(*    trackbars' ranges.                                                   *)
(***************************************************************************)
EXTENDS Integers, Sequences, FiniteSets, TLC

VARIABLES
    \* ---- the program (Spec) ----
    pc,        \* position in main()
    opts,      \* parsed command line: [circle, angle, d, snr, fileOk]
    roi,       \* roi_bw, the tuple returned by cv.selectROI (x, y, w, h)
    roiColor,  \* roi_color, the second selection (line 85)
    condPad,   \* pad width blur_edge was run with on img_bw (0: not yet run)
    events,    \* log of spectral transforms and displays, in program order
    tbAngle,   \* trackbar 'angle' position (-1: not created)
    tbD,       \* trackbar 'd' position
    tbSnr,     \* trackbar 'SNR (db)' position
    defocus,   \* the closure variable toggled by SPACE
    psfShown,  \* what window 'psf' shows
    resShown,  \* what window 'deconvolution' shows
    padShape,  \* shape of psf_pad in the last update (<< >>: never built)
    error,     \* exception raised by the last step ("none" if none)
    updRuns,   \* number of completed or failed runs of update()
    \* ---- the filter arithmetic (SpecFilter) ----
    fPSF, fIMG, fNoise, fRES,
    \* ---- blur_edge (SpecEdge) ----
    eIn, eOut,
    \* ---- the recentring roll (SpecShift) ----
    sIn, sOut

progVars == <<pc, opts, roi, roiColor, condPad, events, tbAngle, tbD, tbSnr, defocus,
              psfShown, resShown, padShape, error, updRuns>>
filterVars == <<fPSF, fIMG, fNoise, fRES>>
edgeVars == <<eIn, eOut>>
shiftVars == <<sIn, sOut>>
probeVars == <<filterVars, edgeVars, shiftVars>>
vars == <<progVars, filterVars, edgeVars, shiftVars>>

(***************************************************************************)
(* Program constants                                                       *)
(***************************************************************************)
IMG_W == 640
IMG_H == 480
KERNEL_SZ == 65
BLUR_EDGE_D == 31
ANGLE_COUNT == 180
D_COUNT == 50
SNR_COUNT == 50
ANGLE_DEFAULT == 135
D_DEFAULT == 22
SNR_DEFAULT == 25
KEY_ESC == 27
KEY_SPACE == 32

Absent == -1

\* opts.get(name, default), line 162-164
OptGet(v, dflt) == IF v = Absent THEN dflt ELSE v

\* Command lines explored: each option absent or one of a few in-range values.
AngleOpts == {Absent, 0, 90, 180}
DOpts == {Absent, 0, 1, 31, 50}
SnrOpts == {Absent, 0, 10, 50}

\* Regions cv.selectROI can return: a cancelled selection is (0, 0, 0, 0).
RoiChoices == {<<0, 0, 0, 0>>, <<0, 0, IMG_W, IMG_H>>, <<100, 50, 200, 120>>}

NoShown == [model |-> "none", angle |-> -1, d |-> -1, snr |-> -1, shift |-> <<0, 0>>]
NoShape == << >>

(***************************************************************************)
(* Pure helpers of update()                                                *)
(***************************************************************************)
\* 10**(-0.1*snr) is positive for every trackbar position (line 121)
NoisePositive(snr) == snr \in 0..SNR_COUNT

\* motion_kernel raises (cv.warpAffine on an empty 1 x 0 source) when d = 0;
\* defocus_kernel never raises.  Both return a sz x sz array.
KernelRaises(isDefocus, d) == (~isDefocus) /\ d = 0
KernelShape == <<KERNEL_SZ, KERNEL_SZ>>

\* np.zeros_like(roi_bw): an array shaped like the 4-tuple, i.e. shape (4,)
ZerosLikeShape(t) == <<Len(t)>>

\* psf_pad[:kh, :kw] = psf needs an array with at least two axes
CanIndex2D(shape) == Len(shape) >= 2

\* Python's floor division n // m for m > 0
FloorDiv(n, m) == IF n >= 0 THEN n \div m ELSE -(((-n) + m - 1) \div m)

\* -kh//2 : unary minus binds tighter than //, i.e. (-kh)//2  (lines 153-154)
RollShift(k) == FloorDiv(-k, 2)

\* The width blur_edge is called with on line 105: its default
CondPadWidthOfDiameter(d) == d
CondPadWidth(d) == BLUR_EDGE_D

(***************************************************************************)
(* update(), lines 118-157, as a function of the state it reads            *)
(***************************************************************************)
UpdateOutcome(isDefocus, ang, d, snr, roiT, log) ==
    LET model == IF isDefocus THEN "defocus" ELSE "motion"
        shown == [model |-> model, angle |-> ang, d |-> d, snr |-> -1, shift |-> <<0, 0>>]
        pad   == ZerosLikeShape(roiT)
        kh    == KernelShape[1]
        kw    == KernelShape[2]
    IN  IF KernelRaises(isDefocus, d)
        THEN [error |-> "cv2.error", psf |-> psfShown, res |-> resShown,
              pad |-> padShape, log |-> log]
        ELSE IF ~CanIndex2D(pad)
        THEN [error |-> "IndexError", psf |-> shown, res |-> resShown,
              pad |-> pad, log |-> Append(log, "imshow_psf")]
        ELSE [error |-> "none", psf |-> shown,
              res |-> [model |-> model, angle |-> ang, d |-> d, snr |-> snr,
                       shift |-> <<RollShift(kh), RollShift(kw)>>],
              pad |-> pad,
              log |-> log \o <<"imshow_psf", "dft_psf", "idft", "imshow_res">>]

(***************************************************************************)
(* main()                                                                  *)
(***************************************************************************)
ProgInit ==
    /\ pc = "load"
    /\ opts \in [circle : BOOLEAN, angle : AngleOpts, d : DOpts, snr : SnrOpts,
                 fileOk : BOOLEAN]
    /\ roi \in RoiChoices
    /\ roiColor \in RoiChoices
    /\ condPad = 0
    /\ events = << >>
    /\ tbAngle = -1 /\ tbD = -1 /\ tbSnr = -1
    /\ defocus = FALSE
    /\ psfShown = NoShown
    /\ resShown = NoShown
    /\ padShape = NoShape
    /\ error = "none"
    /\ updRuns = 0

FilterIdle == fPSF = << >> /\ fIMG = << >> /\ fNoise = <<0, 1>> /\ fRES = << >>
EdgeIdle == eIn = << >> /\ eOut = << >>
ShiftIdle == sIn = << >> /\ sOut = << >>

ProbesIdle == FilterIdle /\ EdgeIdle /\ ShiftIdle

Init == ProgInit /\ ProbesIdle

\* lines 72-103: read, resize, select the region.  An unreadable file makes
\* cv.resize raise on line 75, before the None test of line 78.
Load ==
    /\ pc = "load"
    /\ IF opts.fileOk
       THEN pc' = "condition" /\ error' = "none"
       ELSE pc' = "crashed" /\ error' = "cv2.error"
    /\ UNCHANGED <<opts, roi, roiColor, condPad, events, tbAngle, tbD, tbSnr, defocus,
                   psfShown, resShown, padShape, updRuns>>
    /\ UNCHANGED probeVars

\* lines 105-108: blur_edge on the whole grey image, then on the three
\* channels of the colour crop; an empty crop makes cv.copyMakeBorder raise.
Condition ==
    /\ pc = "condition"
    /\ condPad' = CondPadWidth(OptGet(opts.d, D_DEFAULT))
    /\ IF roiColor[3] = 0 \/ roiColor[4] = 0
       THEN pc' = "crashed" /\ error' = "cv2.error"
       ELSE pc' = "dft" /\ error' = "none"
    /\ UNCHANGED <<opts, roi, roiColor, events, tbAngle, tbD, tbSnr, defocus,
                   psfShown, resShown, padShape, updRuns>>
    /\ UNCHANGED probeVars

\* lines 110-113: the forward transforms of the conditioned images
TransformImage ==
    /\ pc = "dft"
    /\ events' = Append(events, "dft_img")
    /\ pc' = "trackbars"
    /\ UNCHANGED <<opts, roi, roiColor, condPad, tbAngle, tbD, tbSnr, defocus,
                   psfShown, resShown, padShape, error, updRuns>>
    /\ UNCHANGED probeVars

\* lines 116, 160-164: the model flag and the three trackbars
CreateTrackbars ==
    /\ pc = "trackbars"
    /\ defocus' = opts.circle
    /\ tbAngle' = OptGet(opts.angle, ANGLE_DEFAULT)
    /\ tbD' = OptGet(opts.d, D_DEFAULT)
    /\ tbSnr' = OptGet(opts.snr, SNR_DEFAULT)
    /\ pc' = "update"
    /\ UNCHANGED <<opts, roi, roiColor, condPad, events, psfShown, resShown, padShape,
                   error, updRuns>>
    /\ UNCHANGED probeVars

\* the effect of one run of update() on the display state
RunUpdate(isDefocus, ang, d, snr) ==
    LET o == UpdateOutcome(isDefocus, ang, d, snr, roi, events)
    IN  /\ error' = o.error
        /\ psfShown' = o.psf
        /\ resShown' = o.res
        /\ padShape' = o.pad
        /\ events' = o.log
        /\ updRuns' = updRuns + 1

\* line 165: update(None) called from main; an exception leaves main
InitialUpdate ==
    /\ pc = "update"
    /\ RunUpdate(defocus, tbAngle, tbD, tbSnr)
    /\ pc' = IF UpdateOutcome(defocus, tbAngle, tbD, tbSnr, roi, events).error = "none"
             THEN "waitKey" ELSE "crashed"
    /\ UNCHANGED <<opts, roi, roiColor, condPad, tbAngle, tbD, tbSnr, defocus>>
    /\ UNCHANGED probeVars

\* lines 167-173: one key returned by cv.waitKey
WaitKey(ch) ==
    /\ pc = "waitKey"
    /\ IF ch = KEY_ESC
       THEN /\ pc' = "done"
            /\ UNCHANGED <<defocus, error, psfShown, resShown, padShape, events, updRuns>>
       ELSE IF ch = KEY_SPACE
       THEN /\ defocus' = ~defocus
            /\ RunUpdate(~defocus, tbAngle, tbD, tbSnr)
            /\ pc' = IF UpdateOutcome(~defocus, tbAngle, tbD, tbSnr, roi, events).error = "none"
                     THEN "waitKey" ELSE "crashed"
       ELSE UNCHANGED <<pc, defocus, error, psfShown, resShown, padShape, events, updRuns>>
    /\ UNCHANGED <<opts, roi, roiColor, condPad, tbAngle, tbD, tbSnr>>
    /\ UNCHANGED probeVars

\* lines 162-164: a trackbar moved while cv.waitKey dispatches events; the
\* callback is update, and an exception in a callback does not leave the loop
TrackbarMove(name, pos) ==
    /\ pc = "waitKey"
    /\ tbAngle' = IF name = "angle" THEN pos ELSE tbAngle
    /\ tbD' = IF name = "d" THEN pos ELSE tbD
    /\ tbSnr' = IF name = "SNR (db)" THEN pos ELSE tbSnr
    /\ RunUpdate(defocus, tbAngle', tbD', tbSnr')
    /\ UNCHANGED <<pc, opts, roi, roiColor, condPad, defocus>>
    /\ UNCHANGED probeVars

EventLoop ==
    \/ \E ch \in {KEY_ESC, KEY_SPACE, 97} : WaitKey(ch)
    \/ \E pos \in 0..ANGLE_COUNT : TrackbarMove("angle", pos)
    \/ \E pos \in 0..D_COUNT : TrackbarMove("d", pos)
    \/ \E pos \in 0..SNR_COUNT : TrackbarMove("SNR (db)", pos)

Next == Load \/ Condition \/ TransformImage \/ CreateTrackbars \/ InitialUpdate

Spec == Init /\ [][Next]_vars

\* main() with the event loop of lines 167-173
FullSpec == Init /\ [][Next \/ EventLoop]_vars
\* A fixed program state for the specifications of the pure computations
ProgIdle ==
    /\ ProgInit
    /\ opts = [circle |-> FALSE, angle |-> Absent, d |-> Absent, snr |-> Absent,
               fileOk |-> TRUE]
    /\ roi = <<0, 0, IMG_W, IMG_H>>
    /\ roiColor = <<0, 0, IMG_W, IMG_H>>

\* the initial state of the specifications of the pure computations
InitIdle == ProgIdle /\ ProbesIdle

(***************************************************************************)
(* Lines 121, 135-138: the filter arithmetic.  A spectrum is a sequence of *)
(* bins, each the pair <<re, im>> of the two channels cv.dft returns; a    *)
(* rational is <<numerator, denominator>>, and a complex value with a      *)
(* common denominator is <<re, im, den>>.                                  *)
(***************************************************************************)
MaxComp == 1
CompRange == (-MaxComp)..MaxComp
Bins == {1, 2}
Spectra == [Bins -> CompRange \X CompRange]

\* image spectra explored
ImgSpectra == [Bins -> {-1, 0, 1} \X {-1, 0, 1}]

RECURSIVE Pow10(_)
Pow10(n) == IF n = 0 THEN 1 ELSE 10 * Pow10(n - 1)

\* noise = 10**(-0.1*snr), exact for snr a multiple of 10 (line 121)
NoiseLevel(snr) == <<1, Pow10(snr \div 10)>>

\* Regularisation constants explored: the trackbar's 0 dB and 10 dB, and 0,
\* the vanishing-regularisation limit
NoiseChoices == {<<0, 1>>, NoiseLevel(0), NoiseLevel(10)}

\* PSF**2 : element-wise square of the two-channel array (line 135)
ArrSquare(A) == [i \in DOMAIN A |-> <<A[i][1] * A[i][1], A[i][2] * A[i][2]>>]

\* .sum(-1) : sum over the channel axis (line 135)
SumLast(A) == [i \in DOMAIN A |-> A[i][1] + A[i][2]]

\* PSF2 + noise, as a rational per bin (line 136)
AddNoise(S, n) == [i \in DOMAIN S |-> <<S[i] * n[2] + n[1], n[2]>>]

\* PSF / (...)[..., np.newaxis] : both channels divided by the bin's value
\* (line 136).  A zero divisor leaves den = 0 (numpy's nan/inf).
InverseFilterConj(P, Q) ==
    [i \in DOMAIN P |-> <<P[i][1] * Q[i][2], -(P[i][2] * Q[i][2]), Q[i][1]>>]
InverseFilter(P, Q) ==
    [i \in DOMAIN P |-> <<P[i][1] * Q[i][2], P[i][2] * Q[i][2], Q[i][1]>>]

\* cv.mulSpectrums(A, B, 0) : per-element complex product, B not conjugated
\* (line 138)
MulSpectrumsConjB(A, B) ==
    [i \in DOMAIN A |-> <<A[i][1] * B[i][1] + A[i][2] * B[i][2],
                          A[i][2] * B[i][1] - A[i][1] * B[i][2],
                          B[i][3]>>]
MulSpectrums(A, B) ==
    [i \in DOMAIN A |-> <<A[i][1] * B[i][1] - A[i][2] * B[i][2],
                          A[i][1] * B[i][2] + A[i][2] * B[i][1],
                          B[i][3]>>]

\* lines 135-138 on the spectra PSF and IMG_BW
WienerApply(P, I, n) ==
    LET PSF2 == SumLast(ArrSquare(P))
        iPSF == InverseFilter(P, AddNoise(PSF2, n))
    IN  [ipsf |-> iPSF, res |-> MulSpectrums(I, iPSF)]

FilterApply ==
    /\ fRES = << >>
    /\ \E P \in Spectra, I \in ImgSpectra, n \in NoiseChoices :
         /\ fPSF' = P
         /\ fIMG' = I
         /\ fNoise' = n
         /\ fRES' = WienerApply(P, I, n)
    /\ UNCHANGED <<progVars, edgeVars, shiftVars>>

FilterNext == FilterApply
SpecFilter == InitIdle /\ [][FilterNext]_vars

(***************************************************************************)
(* blur_edge, lines 36-43, at one pixel (y, x) of an h x w image.          *)
(* Intensities are integer levels; the weight w and the result are kept in *)
(* units of 1/d.  cv.GaussianBlur's value at the pixel is any level of the *)
(* range: it is a convex combination of the wrapped image's pixels.        *)
(***************************************************************************)
MaxDim == 5
MaxPad == 2
MaxPix == 1

Min2(a, b) == IF a <= b THEN a ELSE b

\* length of seq[a:b] for a sequence of length n (Python slice semantics)
PySliceLen(n, a, b) ==
    LET lo == IF a < 0 THEN (IF n + a < 0 THEN 0 ELSE n + a) ELSE Min2(a, n)
        hi == IF b < 0 THEN (IF n + b < 0 THEN 0 ELSE n + b) ELSE Min2(b, n)
    IN  IF hi > lo THEN hi - lo ELSE 0

\* shape of cv.copyMakeBorder(img, d, d, d, d, ...), line 38
PadShape(h, w, d) == <<h + 2 * d, w + 2 * d>>

\* shape of the blurred crop [d:-d, d:-d], line 39
CropShape(h, w, d) ==
    <<PySliceLen(PadShape(h, w, d)[1], d, -d), PySliceLen(PadShape(h, w, d)[2], d, -d)>>

\* dist = np.dstack([x, w-x-1, y, h-y-1]).min(-1), line 41
EdgeDistNoRight(h, w, y, x) == Min2(x, Min2(y, h - y - 1))
EdgeDist(h, w, y, x) == Min2(Min2(x, w - x - 1), Min2(y, h - y - 1))

\* w = np.minimum(np.float32(dist)/d, 1.0), line 42, in units of 1/d
BlendWeight(dist, d) == Min2(dist, d)

\* img*w + img_blur*(1-w), line 43, in units of 1/d
Blend(pix, blur, wn, d) == pix * wn + blur * (d - wn)

\* shape of a binary numpy operation on two 2-D arrays (<< >>: ValueError)
BroadcastAxis(a, b) == IF a = b THEN a ELSE IF a = 1 THEN b ELSE IF b = 1 THEN a ELSE -1
Broadcast(s, t) ==
    IF BroadcastAxis(s[1], t[1]) < 0 \/ BroadcastAxis(s[2], t[2]) < 0
    THEN << >>
    ELSE <<BroadcastAxis(s[1], t[1]), BroadcastAxis(s[2], t[2])>>

BlurEdgeAt(h, w, d, y, x, pix, blur) ==
    LET dist == EdgeDist(h, w, y, x)
        wn   == BlendWeight(dist, d)
    IN  [shape |-> Broadcast(<<h, w>>, CropShape(h, w, d)),
         weight |-> wn,
         out |-> Blend(pix, blur, wn, d)]

EdgeApply ==
    /\ eOut = << >>
    /\ \E h \in 1..MaxDim, w \in 1..MaxDim, d \in 1..MaxPad :
         \E y \in 0..(h - 1), x \in 0..(w - 1), pix \in 0..MaxPix, blur \in 0..MaxPix :
            /\ eIn' = [h |-> h, w |-> w, d |-> d, y |-> y, x |-> x,
                       pix |-> pix, blur |-> blur]
            /\ eOut' = BlurEdgeAt(h, w, d, y, x, pix, blur)
    /\ UNCHANGED <<progVars, filterVars, shiftVars>>

EdgeNext == EdgeApply
SpecEdge == InitIdle /\ [][EdgeNext]_vars

(***************************************************************************)
(* Lines 131, 153-154: the recentring roll, followed for the element at    *)
(* (y, x) of an h x w result and a kh x kw kernel.                         *)
(***************************************************************************)
MaxSide == 4
MaxRes == 3
KernelSides == (1..MaxSide) \cup {KERNEL_SZ}

\* Python's a % n for n > 0
PyMod(a, n) == ((a % n) + n) % n

\* np.roll(a, s, axis): the element at index i moves to (i + s) mod n
RollIndex(i, s, n) == PyMod(i + s, n)

ShiftAt(kh, kw, h, w, y, x) ==
    [shift |-> <<RollShift(kh), RollShift(kw)>>,
     pos |-> <<RollIndex(y, RollShift(kh), h), RollIndex(x, RollShift(kw), w)>>]

ShiftApply ==
    /\ sOut = << >>
    /\ \E kh \in KernelSides, kw \in KernelSides, h \in 1..MaxRes, w \in 1..MaxRes :
         \E y \in 0..(h - 1), x \in 0..(w - 1) :
            /\ sIn' = [kh |-> kh, kw |-> kw, h |-> h, w |-> w, y |-> y, x |-> x]
            /\ sOut' = ShiftAt(kh, kw, h, w, y, x)
    /\ UNCHANGED <<progVars, filterVars, edgeVars>>

ShiftNext == ShiftApply
SpecShift == InitIdle /\ [][ShiftNext]_vars

(***************************************************************************)
(* The claims                                                              *)
(***************************************************************************)
UpdateRan == updRuns > 0

HasTransform(log) == \E i \in DOMAIN log : log[i] \in {"dft_img", "dft_psf", "idft"}

\* C1: a restoration requested with diameter = 0, with diameter >= the kernel
\* canvas size, or with noiseLevel <= 0 ends in an error and emits neither
\* the kernel preview nor a restored image.
C1_RejectedWithoutOutput ==
    (UpdateRan /\ (tbD = 0 \/ tbD >= KERNEL_SZ \/ ~NoisePositive(tbSnr)))
        => (error # "none" /\ psfShown = NoShown /\ resShown = NoShown)

\* C2: every check that fails does so before the first forward or inverse
\* spectral transform has been run.
C2_ChecksBeforeTransforms == error # "none" => ~HasTransform(events)

\* C3: the zero-filled array the kernel is padded into has the dimensions
\* (H, W) of the conditioned image, and the padding never fails on a
\* dimension mismatch.
C3_PadMatchesImage ==
    UpdateRan => (padShape \in {NoShape, <<IMG_H, IMG_W>>} /\ error # "IndexError")

\* C4: the result is rolled by -(kh/2) rows and -(kw/2) columns, the integer
\* division taken before the negation: the magnitude is floor(k/2).
C4_ShiftIsHalfKernel ==
    sOut # << >> => sOut.shift = <<-(sIn.kh \div 2), -(sIn.kw \div 2)>>

\* C5 as stated: the pad width of the conditioning equals the diameter the
\* restoration uses.
C5_PadEqualsDiameter == UpdateRan => condPad = tbD

\* C5 as amended: the image every restoration works on was conditioned with
\* padWidth 31, blur_edge's default, whatever the diameter; the pad width
\* equals the diameter only when the diameter is 31.
C5_PadIsDefault ==
    /\ condPad \in {0, BLUR_EDGE_D}
    /\ HasTransform(events) => condPad = BLUR_EDGE_D
    /\ UpdateRan => (condPad = tbD <=> tbD = BLUR_EDGE_D)

C5_Witness == UpdateRan /\ tbD = 50 /\ condPad = BLUR_EDGE_D /\ psfShown.d = 50

\* C6: the parameters handed to the kernel synthesizer satisfy
\* 0 < diameter < min(H, W) and 0 <= angle < pi (angle position < 180).
C6_ParametersInDomain ==
    UpdateRan => /\ tbD > 0
                 /\ tbD < Min2(IMG_H, IMG_W)
                 /\ tbAngle >= 0
                 /\ tbAngle < ANGLE_COUNT

\* |P|^2 + noise at bin i, times the noise's denominator
RegDen(i) == (fPSF[i][1] * fPSF[i][1] + fPSF[i][2] * fPSF[i][2]) * fNoise[2] + fNoise[1]

\* C7: at every bin the filter value is P / (|P|^2 + noiseLevel), both
\* components divided by the same real number, and the result is the plain
\* complex product of that bin's image value and filter value.
C7_FilterAndProduct ==
    fRES # << >> =>
      \A i \in Bins : RegDen(i) # 0 =>
        LET re == fPSF[i][1]   im == fPSF[i][2]
            a  == fIMG[i][1]   b  == fIMG[i][2]
            F  == fRES.ipsf[i] R  == fRES.res[i]
        IN  /\ F[3] # 0 /\ R[3] # 0
            /\ F[1] * RegDen(i) = re * fNoise[2] * F[3]
            /\ F[2] * RegDen(i) = im * fNoise[2] * F[3]
            /\ R[1] * RegDen(i) = (a * re - b * im) * fNoise[2] * R[3]
            /\ R[2] * RegDen(i) = (a * im + b * re) * fNoise[2] * R[3]

C7_Witness ==
    /\ fRES # << >>
    /\ fNoise = NoiseLevel(10)
    /\ fPSF[1] = <<1, 1>> /\ fPSF[2] = <<0, -1>>
    /\ fIMG[1] = <<1, -1>> /\ fIMG[2] = <<1, 1>>
    /\ fRES.res[1] = <<20, 0, 21>>
    /\ fRES.res[2] = <<10, -10, 11>>

\* the complex product filter * P at bin i, as <<re, im, den>>
FilterTimesP(i) ==
    LET F == fRES.ipsf[i]
    IN  <<F[1] * fPSF[i][1] - F[2] * fPSF[i][2],
          F[1] * fPSF[i][2] + F[2] * fPSF[i][1],
          F[3]>>

IsOne(z) == z[3] # 0 /\ z[1] = z[3] /\ z[2] = 0

\* C9 as stated: with noiseLevel = 0 and P # 0 the filter is the true inverse,
\* filter * P = 1, for every complex P; an image blurred with the kernel gets
\* its spectrum back.
C9_FilterIsInverse ==
    (fRES # << >> /\ fNoise[1] = 0) =>
      \A i \in Bins : fPSF[i] # <<0, 0>> =>
        /\ IsOne(FilterTimesP(i))
        /\ fIMG[i] = fPSF[i] => IsOne(fRES.res[i])

\* C9 as amended: with noiseLevel = 0 and P = (re, im) # 0,
\* filter * P = P^2 / |P|^2 = (re^2 - im^2, 2 re im) / (re^2 + im^2), which is
\* 1 exactly when P is real (im = 0); the unit impulse blurred with the
\* kernel (spectrum P) comes back as P^2 / |P|^2.
C9_FilterTimesPIsPSquared ==
    (fRES # << >> /\ fNoise[1] = 0) =>
      \A i \in Bins : fPSF[i] # <<0, 0>> =>
        LET re == fPSF[i][1]   im == fPSF[i][2]
            m2 == re * re + im * im
            Z  == FilterTimesP(i)
            R  == fRES.res[i]
        IN  /\ Z[3] # 0
            /\ Z[1] * m2 = (re * re - im * im) * Z[3]
            /\ Z[2] * m2 = (2 * re * im) * Z[3]
            /\ IsOne(Z) <=> im = 0
            /\ fIMG[i] = fPSF[i] => (R = Z /\ (IsOne(R) <=> im = 0))

C9_Witness ==
    /\ fRES # << >>
    /\ fNoise = <<0, 1>>
    /\ fPSF[1] = <<0, 1>> /\ fIMG[1] = <<0, 1>>
    /\ FilterTimesP(1) = <<-1, 0, 1>>
    /\ fRES.res[1] = <<-1, 0, 1>>
    /\ fPSF[2] = <<1, 0>> /\ IsOne(FilterTimesP(2))

\* distance of the pixel to the nearest image edge, as the claim writes it
ClaimDist == Min2(Min2(eIn.x, eIn.w - 1 - eIn.x), Min2(eIn.y, eIn.h - 1 - eIn.y))

Outermost == eIn.x \in {0, eIn.w - 1} \/ eIn.y \in {0, eIn.h - 1}

\* C8: blur_edge returns an array of the input's H x W; every pixel at
\* distance >= padWidth from the nearest edge is exactly the input pixel; the
\* blend weight min(dist/padWidth, 1) lies in [0, 1] and is 0 on the outermost
\* rows and columns.  (Weights and results are in units of 1/padWidth.)
C8_InteriorUnchanged ==
    eOut # << >> =>
        /\ eOut.shape = <<eIn.h, eIn.w>>
        /\ eOut.weight >= 0 /\ eOut.weight <= eIn.d
        /\ eOut.weight = Min2(ClaimDist, eIn.d)
        /\ ClaimDist >= eIn.d => eOut.out = eIn.pix * eIn.d
        /\ Outermost => (eOut.weight = 0 /\ eOut.out = eIn.blur * eIn.d)

C8_Witness ==
    /\ eOut # << >>
    /\ eIn.h = 5 /\ eIn.w = 5 /\ eIn.d = 2 /\ eIn.y = 2 /\ eIn.x = 2
    /\ eIn.pix = 1 /\ eIn.blur = 0
    /\ eOut.out = 2 /\ eOut.weight = 2

\* C10: whenever update has been run and control is back with the caller, the
\* kernel preview and the restored image on display were computed from the
\* current angle, diameter, SNR and blur model.
C10_DisplayIsCurrent ==
    UpdateRan =>
        LET model == IF defocus THEN "defocus" ELSE "motion"
        IN  /\ psfShown.model = model /\ psfShown.angle = tbAngle /\ psfShown.d = tbD
            /\ resShown.model = model /\ resShown.angle = tbAngle
            /\ resShown.d = tbD /\ resShown.snr = tbSnr
====
